---- MODULE Spec2Model ----
(***************************************************************************)
(* WeightsCalibration (src/project_2.py): one slot of a five-slot weight   *)
(* list is held fixed and the difference to 100 is spread, one unit per    *)
(* loop step, over the other four slots in a shuffled order.               *)
(*                                                                         *)
(* Python list indices are 0-based; the TLA+ sequences below are 1-based,  *)
(* so list entry i of the program is element i + 1 of the sequence.       *)
(***************************************************************************)
EXTENDS Integers, Sequences, FiniteSets, TLC

\* ----------------------------------------------------------------- bounds

\* Largest change applied to one slot of a stored list to form an input.
MaxEdit == 7

\* Largest change applied to one slot in the two-call specification.
MaxEditTwice == 5

\* ------------------------------------------------------ program constants

\* raw_seq = [0, 1, 2, 3, 4]
NumWeights == 5

\* value_to_distribute = 100 - sum(...)
Total == 100

\* --------------------------------------------------------------- helpers

Abs(x) == IF x < 0 THEN -x ELSE x

RECURSIVE Sum(_)
Sum(s) == IF s = <<>> THEN 0 ELSE Head(s) + Sum(Tail(s))

\* The list raw_seq of set_iterator, as the set of its entries.
RawSeq == 0 .. (NumWeights - 1)

\* Every order random.shuffle can leave the entries of S in.
Shuffles(S) ==
    {p \in [1 .. Cardinality(S) -> S] : \A a, b \in DOMAIN p : p[a] = p[b] => a = b}

\* ---------------------------------------------------------------- inputs

\* Weight lists at rest (each sums to 100).
StoredWeights ==
    { <<20, 20, 20, 20, 20>>, <<10, 20, 30, 25, 15>>, <<0, 0, 0, 0, 100>> }

\* The stored list used where every input is calibrated twice.
StoredTwice == { <<0, 10, 20, 30, 40>> }

\* A list of S with one slot moved by at most m.
Edited(S, m) ==
    {[w EXCEPT ![e] = @ + delta] :
        w \in S, e \in 1 .. NumWeights, delta \in (-m) .. m}

\* Lists that do not have five entries: one entry short (the last or the
\* first one missing) or one entry long.
WrongLength(S) ==
    {SubSeq(w, 1, NumWeights - 1) : w \in Edited(S, 1)}
        \cup {Tail(w) : w \in Edited(S, 1)}
        \cup {Append(w, 0) : w \in Edited(S, 1)}

\* The slider numbers a caller may pass: 1..5 are the valid ones.
SliderNumbers == 0 .. (NumWeights + 1)

ValidInput(inp) ==
    /\ (inp[1] - 1) \in RawSeq
    /\ Len(inp[2]) = NumWeights

\* ----------------------------------------------------------------- state

VARIABLES
    input_data,               \* <<slider number, weights>> as given to __init__
    weight_index,             \* self.weight_index
    modified_weights_status,  \* self.modified_weights_status
    sequence,                 \* local of weights_calibration
    value_to_distribute,      \* local of weights_calibration
    pc,                       \* position in weights_calibration
    pos,                      \* position of the running for loop in its list
    raised,                   \* the exception that ended the call, or "none"
    adjustments,              \* number of executions of the loop bodies
    call,                     \* 1 for the first call, 2 for a repeated call
    first_sequence,           \* order drawn by the first call
    first_result              \* list returned by the first call

vars ==
    <<input_data, weight_index, modified_weights_status, sequence,
      value_to_distribute, pc, pos, raised, adjustments, call,
      first_sequence, first_result>>

\* WeightsCalibration(input_data): the state after construction.
Construct(inp) ==
    /\ input_data = inp
    /\ weight_index = inp[1] - 1
    /\ modified_weights_status = inp[2]
    /\ sequence = <<>>
    /\ value_to_distribute = 0
    /\ pc = "set_iterator"
    /\ pos = 0
    /\ raised = "none"
    /\ adjustments = 0
    /\ call = 1
    /\ first_sequence = <<>>
    /\ first_result = <<>>

Init ==
    \E n \in SliderNumbers, w \in Edited(StoredWeights, MaxEdit) \cup WrongLength(StoredWeights) :
        Construct(<<n, w>>)

\* ---------------------------------------------------------------- actions

\* Variant of SetIterator: removes the slider number (input_data[0]) from
\* raw_seq where the code removes weight_index.
SetIteratorRemovesSlider ==
    /\ pc = "set_iterator"
    /\ \/ /\ input_data[1] \notin RawSeq
          /\ raised' = "ValueError"
          /\ pc' = "raised"
          /\ UNCHANGED sequence
       \/ /\ input_data[1] \in RawSeq
          /\ \E p \in Shuffles(RawSeq \ {input_data[1]}) : sequence' = p
          /\ pc' = "deficit"
          /\ UNCHANGED raised
    /\ UNCHANGED <<input_data, weight_index, modified_weights_status,
                   value_to_distribute, pos, adjustments, call,
                   first_sequence, first_result>>

\* sequence = self.set_iterator()
SetIterator ==
    /\ pc = "set_iterator"
    /\ \/ /\ weight_index \notin RawSeq
          /\ raised' = "ValueError"
          /\ pc' = "raised"
          /\ UNCHANGED sequence
       \/ /\ weight_index \in RawSeq
          /\ \E p \in Shuffles(RawSeq \ {weight_index}) : sequence' = p
          /\ pc' = "deficit"
          /\ UNCHANGED raised
    /\ UNCHANGED <<input_data, weight_index, modified_weights_status,
                   value_to_distribute, pos, adjustments, call,
                   first_sequence, first_result>>

\* value_to_distribute = 100 - sum(self.modified_weights_status)
ComputeDeficit ==
    /\ pc = "deficit"
    /\ value_to_distribute' = Total - Sum(modified_weights_status)
    /\ pc' = "while"
    /\ UNCHANGED <<input_data, weight_index, modified_weights_status, sequence,
                   pos, raised, adjustments, call, first_sequence, first_result>>

\* Variant of WhileTest: `while value_to_distribute > 0`.
WhileTestPositiveOnly ==
    /\ pc = "while"
    /\ \/ /\ value_to_distribute <= 0
          /\ pc' = "done"
          /\ pos' = 0
       \/ /\ value_to_distribute > 0
          /\ pc' = "for_add"
          /\ pos' = 1
    /\ UNCHANGED <<input_data, weight_index, modified_weights_status, sequence,
                   value_to_distribute, raised, adjustments, call,
                   first_sequence, first_result>>

\* Variant of WhileTest: the loop body runs once before the first test.
WhileTestEnterOnZero ==
    /\ pc = "while"
    /\ \/ /\ value_to_distribute = 0 /\ adjustments > 0
          /\ pc' = "done"
          /\ pos' = 0
       \/ /\ value_to_distribute > 0 \/ (value_to_distribute = 0 /\ adjustments = 0)
          /\ pc' = "for_add"
          /\ pos' = 1
       \/ /\ value_to_distribute < 0
          /\ pc' = "for_sub"
          /\ pos' = 1
    /\ UNCHANGED <<input_data, weight_index, modified_weights_status, sequence,
                   value_to_distribute, raised, adjustments, call,
                   first_sequence, first_result>>

\* while value_to_distribute != 0: if value_to_distribute > 0: ... else: ...
\* and, once the test fails, return self.modified_weights_status
WhileTest ==
    /\ pc = "while"
    /\ \/ /\ value_to_distribute = 0
          /\ pc' = "done"
          /\ pos' = 0
       \/ /\ value_to_distribute > 0
          /\ pc' = "for_add"
          /\ pos' = 1
       \/ /\ value_to_distribute < 0
          /\ pc' = "for_sub"
          /\ pos' = 1
    /\ UNCHANGED <<input_data, weight_index, modified_weights_status, sequence,
                   value_to_distribute, raised, adjustments, call,
                   first_sequence, first_result>>

\* A loop body as the variants below change it: slot i moves by unit, and
\* the loop leaves at zero only when breaks is TRUE.
VariantBody(here, i, unit, breaks) ==
    /\ pc = here
    /\ \/ /\ i >= Len(modified_weights_status)
          /\ raised' = "IndexError"
          /\ pc' = "raised"
          /\ UNCHANGED <<modified_weights_status, value_to_distribute, pos,
                         adjustments>>
       \/ /\ i < Len(modified_weights_status)
          /\ modified_weights_status' =
                 [modified_weights_status EXCEPT ![i + 1] = @ + unit]
          /\ value_to_distribute' = value_to_distribute - unit
          /\ adjustments' = adjustments + 1
          /\ IF (breaks /\ value_to_distribute' = 0) \/ pos = Len(sequence)
                THEN pc' = "while" /\ pos' = 0
                ELSE pc' = pc /\ pos' = pos + 1
          /\ UNCHANGED raised
    /\ UNCHANGED <<input_data, weight_index, sequence, call, first_sequence,
                   first_result>>

\* Variant of AddStep: the slot is drawn afresh at every step.
AddStepAnySlot ==
    /\ pc = "for_add"
    /\ \E j \in 1 .. Len(sequence) : VariantBody("for_add", sequence[j], 1, TRUE)

\* Variant of AddStep: walks the order backwards, as the subtracting loop does.
AddStepReversed ==
    /\ pc = "for_add"
    /\ VariantBody("for_add", sequence[Len(sequence) + 1 - pos], 1, TRUE)

\* Variant of AddStep: no break when value_to_distribute reaches 0.
AddStepNoBreak ==
    /\ pc = "for_add"
    /\ VariantBody("for_add", sequence[pos], 1, FALSE)

\* One pass through the body of `for i in sequence` (the adding branch).
AddStep ==
    /\ pc = "for_add"
    /\ LET i == sequence[pos] IN
       \/ /\ i >= Len(modified_weights_status)
          /\ raised' = "IndexError"
          /\ pc' = "raised"
          /\ UNCHANGED <<modified_weights_status, value_to_distribute, pos,
                         adjustments>>
       \/ /\ i < Len(modified_weights_status)
          /\ modified_weights_status' =
                 [modified_weights_status EXCEPT ![i + 1] = @ + 1]
          /\ value_to_distribute' = value_to_distribute - 1
          /\ adjustments' = adjustments + 1
          /\ IF value_to_distribute' = 0 \/ pos = Len(sequence)
                THEN pc' = "while" /\ pos' = 0
                ELSE pc' = pc /\ pos' = pos + 1
          /\ UNCHANGED raised
    /\ UNCHANGED <<input_data, weight_index, sequence, call, first_sequence,
                   first_result>>

\* Variant of SubStep: walks the order forwards, as the adding loop does.
SubStepForward ==
    /\ pc = "for_sub"
    /\ VariantBody("for_sub", sequence[pos], -1, TRUE)

\* Variant of SubStep: no break when value_to_distribute reaches 0.
SubStepNoBreak ==
    /\ pc = "for_sub"
    /\ VariantBody("for_sub", sequence[Len(sequence) + 1 - pos], -1, FALSE)

\* Variant of SubStep: a slot that is not positive is passed over.
SubStepFloor ==
    /\ pc = "for_sub"
    /\ LET i == sequence[Len(sequence) + 1 - pos] IN
       IF i < Len(modified_weights_status) /\ modified_weights_status[i + 1] <= 0
          THEN /\ IF pos = Len(sequence)
                     THEN pc' = "while" /\ pos' = 0
                     ELSE pc' = pc /\ pos' = pos + 1
               /\ UNCHANGED <<modified_weights_status, value_to_distribute,
                              adjustments, raised, input_data, weight_index,
                              sequence, call, first_sequence, first_result>>
          ELSE VariantBody("for_sub", i, -1, TRUE)

\* One pass through the body of `for i in reversed(sequence)`.
SubStep ==
    /\ pc = "for_sub"
    /\ LET i == sequence[Len(sequence) + 1 - pos] IN
       \/ /\ i >= Len(modified_weights_status)
          /\ raised' = "IndexError"
          /\ pc' = "raised"
          /\ UNCHANGED <<modified_weights_status, value_to_distribute, pos,
                         adjustments>>
       \/ /\ i < Len(modified_weights_status)
          /\ modified_weights_status' =
                 [modified_weights_status EXCEPT ![i + 1] = @ - 1]
          /\ value_to_distribute' = value_to_distribute + 1
          /\ adjustments' = adjustments + 1
          /\ IF value_to_distribute' = 0 \/ pos = Len(sequence)
                THEN pc' = "while" /\ pos' = 0
                ELSE pc' = pc /\ pos' = pos + 1
          /\ UNCHANGED raised
    /\ UNCHANGED <<input_data, weight_index, sequence, call, first_sequence,
                   first_result>>

\* The caller builds WeightsCalibration(input_data) once more from the same
\* input_data and calls weights_calibration() again.
CallAgain ==
    /\ pc = "done"
    /\ call = 1
    /\ first_sequence' = sequence
    /\ first_result' = modified_weights_status
    /\ call' = 2
    /\ weight_index' = input_data[1] - 1
    /\ modified_weights_status' = input_data[2]
    /\ sequence' = <<>>
    /\ value_to_distribute' = 0
    /\ pc' = "set_iterator"
    /\ pos' = 0
    /\ raised' = "none"
    /\ adjustments' = 0
    /\ UNCHANGED input_data

Next ==
    \/ SetIterator
    \/ ComputeDeficit
    \/ WhileTest
    \/ AddStep
    \/ SubStep

\* One call of weights_calibration on every input.
Spec == Init /\ [][Next]_vars

\* The same, with the scheduling of a sequential program: a step that can be
\* taken is taken.
LiveSpec == Init /\ [][Next]_vars /\ WF_vars(Next)

InitTwice ==
    \E n \in SliderNumbers,
       w \in Edited(StoredTwice, MaxEditTwice) \cup WrongLength(StoredTwice) :
        Construct(<<n, w>>)

NextTwice ==
    \/ Next
    \/ CallAgain

\* Two calls in a row on the same input, each drawing its own order.
SpecTwice == InitTwice /\ [][NextTwice]_vars

\* ------------------------------------------------- shorthands for claims

\* The call runs on a valid input: slider number 1..5 and five weights.
Valid == ValidInput(input_data)

\* The weights as they were given.
InputWeights == input_data[2]

\* 100 - sum(weights) of the input.
Deficit == Total - Sum(InputWeights)

\* The slots other than the pivot.
Others == RawSeq \ {weight_index}

\* What the call added to slot i (0-based).
Adjustment(i) == modified_weights_status[i + 1] - InputWeights[i + 1]

InLoop == pc \in {"while", "for_add", "for_sub", "done"}

\* ---------------------------------------------------------------- claims

\* C1: on a valid input the list returned by weights_calibration sums to
\* exactly 100, whatever order set_iterator drew.
C1_SumIs100 ==
    (Valid /\ pc = "done") => Sum(modified_weights_status) = Total

\* A valid call has returned after more than one pass over the order.
C1_Witness ==
    /\ Valid
    /\ pc = "done"
    /\ Abs(Deficit) > Len(sequence)
    /\ Sum(modified_weights_status) = Total

\* C2: on a valid input the pivot slot never changes, and the order built by
\* set_iterator holds each of the four other indices exactly once and never
\* weight_index.
C2_PivotUnchanged ==
    Valid =>
        /\ modified_weights_status[weight_index + 1] = InputWeights[weight_index + 1]
        /\ pc # "set_iterator" =>
              /\ Len(sequence) = NumWeights - 1
              /\ \A i \in Others : Cardinality({j \in DOMAIN sequence : sequence[j] = i}) = 1
              /\ \A j \in DOMAIN sequence : sequence[j] # weight_index

\* A valid call has returned with every other slot changed and the pivot as
\* it was given.
C2_Witness ==
    /\ Valid
    /\ pc = "done"
    /\ \A i \in Others : Adjustment(i) # 0
    /\ Adjustment(weight_index) = 0

\* C3: when the five input weights already sum to 100, no loop body runs and
\* every slot keeps its input value, for every pivot and every order.
C3_BalancedUnchanged ==
    (Valid /\ Deficit = 0) =>
        /\ modified_weights_status = InputWeights
        /\ adjustments = 0
        /\ pc \notin {"for_add", "for_sub"}

\* A valid call on a balanced list has returned it.
C3_Witness ==
    /\ Valid
    /\ Deficit = 0
    /\ pc = "done"
    /\ modified_weights_status = InputWeights

\* C4: a pivot outside 0..4 or a list that does not have exactly 5 entries
\* never makes the call return, and when the error is raised no weight has
\* been modified.
C4_InvalidInputRejected ==
    ~Valid =>
        /\ pc # "done"
        /\ pc = "raised" => modified_weights_status = InputWeights

\* C5: the order is the only source of nondeterminism: a repeated call on the
\* same input that draws the same order returns the same list.
C5_SameOrderSameResult ==
    (call = 2 /\ pc = "done" /\ sequence = first_sequence) =>
        modified_weights_status = first_result

\* A repeated call has returned after more than one pass over the order the
\* first call had drawn.
C5_Witness ==
    /\ Valid
    /\ call = 2
    /\ pc = "done"
    /\ sequence = first_sequence
    /\ Abs(Deficit) > Len(sequence)
    /\ modified_weights_status = first_result

\* The order read backwards.
Reversed(order) == [j \in 1 .. Len(order) |-> order[Len(order) + 1 - j]]

\* One cyclic scan: from position j of order, one unit per step, wrapping at
\* the end, until d is 0.
RECURSIVE Scan(_, _, _, _)
Scan(w, order, j, d) ==
    IF d = 0
       THEN w
       ELSE LET unit == IF d > 0 THEN 1 ELSE -1 IN
            Scan([w EXCEPT ![order[j] + 1] = @ + unit], order,
                 (j % Len(order)) + 1, d - unit)

\* The cyclic distributor: the order forwards for a positive deficit,
\* backwards for a negative one.
CyclicScan(w, order, d) ==
    Scan(w, IF d > 0 THEN order ELSE Reversed(order), 1, d)

\* C6: on a valid input the nested loops return the list a single cyclic
\* scan of the order (reversed for a negative deficit) returns.
C6_CyclicScanEquivalent ==
    (Valid /\ pc = "done") =>
        modified_weights_status = CyclicScan(InputWeights, sequence, Deficit)

\* A valid call has returned after a negative deficit made the reversed
\* order wrap around.
C6_Witness ==
    /\ Valid
    /\ pc = "done"
    /\ Deficit < -Len(sequence)
    /\ modified_weights_status = CyclicScan(InputWeights, sequence, Deficit)

\* Units that position k (0-based) of the walked order receives out of d.
Share(d, k, n) == (Abs(d) \div n) + (IF k < Abs(d) % n THEN 1 ELSE 0)

\* C7: with order p and input deficit d, slot p[k] ends Share(d, k) above its
\* input value when d > 0 and slot p[3-k] ends Share(d, k) below it when
\* d < 0; the adjustments of two non-pivot slots differ by at most 1 and none
\* has the sign opposite to d.
C7_ClosedForm ==
    (Valid /\ pc = "done") =>
        LET n == Len(sequence) IN
        /\ \A k \in 0 .. (n - 1) :
              /\ Deficit > 0 => Adjustment(sequence[k + 1]) = Share(Deficit, k, n)
              /\ Deficit < 0 => Adjustment(sequence[n - k]) = -Share(Deficit, k, n)
        /\ \A a, b \in Others : Abs(Adjustment(a) - Adjustment(b)) <= 1
        /\ \A a \in Others : Adjustment(a) * Deficit >= 0

\* A valid call has returned after a full pass and a partial pass, so that
\* two slots received different amounts.
C7_Witness ==
    /\ Valid
    /\ pc = "done"
    /\ Abs(Deficit) > Len(sequence)
    /\ \E a, b \in Others : Abs(Adjustment(a) - Adjustment(b)) = 1

\* One execution of a loop body, as C8 describes it.
UnitStep ==
    /\ \E i \in Others :
          /\ Abs(modified_weights_status'[i + 1] - modified_weights_status[i + 1]) = 1
          /\ (modified_weights_status'[i + 1] - modified_weights_status[i + 1])
                 * value_to_distribute > 0
          /\ \A j \in RawSeq \ {i} :
                 modified_weights_status'[j + 1] = modified_weights_status[j + 1]
    /\ Abs(value_to_distribute') = Abs(value_to_distribute) - 1
    /\ value_to_distribute' * value_to_distribute >= 0

\* C8: on a valid input, in every state of the loop
\* sum(modified_weights_status) + value_to_distribute = 100, and every
\* execution of a loop body changes exactly one non-pivot slot by exactly 1
\* and moves value_to_distribute exactly 1 toward 0 without changing its sign.
C8_LoopInvariant ==
    /\ []((Valid /\ InLoop) =>
             Sum(modified_weights_status) + value_to_distribute = Total)
    /\ [][(Valid /\ pc \in {"for_add", "for_sub"}) => UnitStep]_vars

\* A valid call is inside its second pass of the subtracting loop.
C8_Witness ==
    /\ Valid
    /\ pc = "for_sub"
    /\ adjustments > Len(sequence)
    /\ Sum(modified_weights_status) + value_to_distribute = Total

\* C9: on a valid input the call returns, after exactly |100 - sum(weights)|
\* executions of a loop body.
C9_Terminates ==
    /\ Valid ~> (pc = "done" /\ adjustments = Abs(Deficit))
    /\ [](Valid => adjustments <= Abs(Deficit))

\* A valid call has returned after more than one pass and exactly |deficit|
\* executions of a loop body.
C9_Witness ==
    /\ Valid
    /\ pc = "done"
    /\ adjustments = Abs(Deficit)
    /\ adjustments > Len(sequence)

\* C10: the subtracting loop has no floor check: its body takes 1 from the
\* slot it is at whatever the slot holds, zero and negative values included.
C10_NoFloorCheck ==
    [][(Valid /\ pc = "for_sub") =>
          LET i == sequence[Len(sequence) + 1 - pos] IN
          modified_weights_status'[i + 1] = modified_weights_status[i + 1] - 1]_vars

\* A valid call on non-negative weights summing to more than 100 has
\* returned a list with a negative non-pivot weight.
C10_Witness ==
    /\ Valid
    /\ pc = "done"
    /\ \A j \in DOMAIN InputWeights : InputWeights[j] >= 0
    /\ Sum(InputWeights) > Total
    /\ \E i \in Others : modified_weights_status[i + 1] < 0

====
